---------------------------- MODULE Spec2Model ----------------------------
(***************************************************************************)
(* A model of capture/src/event.rs: the decoding of a request body into    *)
(* RawEvents (RawEvent::from_bytes), the token of a RawEvent               *)
(* (RawEvent::extract_token) and the key of a ProcessedEvent               *)
(* (ProcessedEvent::key).                                                  *)
(*                                                                         *)
(* A byte buffer and a Rust String are sequences of bytes (0..255): a      *)
(* String is its UTF-8 encoding.  An Option is a sequence of length at     *)
(* most one: None is << >> and Some(x) is << x >>.                         *)
(***************************************************************************)
EXTENDS Integers, Sequences, FiniteSets, TLC

None == << >>

Some(x) == << x >>

IsSome(o) == Len(o) = 1

(***************************************************************************)
(* An intermediate result is bound with x \in { e }, so that e is          *)
(* evaluated once however often x is used: Only({ F(x) : x \in { e } })    *)
(* is F(e).                                                                *)
(***************************************************************************)
Only(S) == CHOOSE x \in S : TRUE

(***************************************************************************)
(* Bytes::starts_with and the slices used by the decoders.                 *)
(***************************************************************************)
StartsWith(s, p) ==
    /\ Len(s) >= Len(p)
    /\ \A i \in 1..Len(p) : s[i] = p[i]

Drop(s, n) == SubSeq(s, n + 1, Len(s))

GZIP_MAGIC_NUMBERS == << 31, 139, 8 >>

(***************************************************************************)
(* String::from_utf8: the well-formed byte sequences of UTF-8 (no overlong *)
(* forms, no surrogates, nothing above U+10FFFF).                          *)
(***************************************************************************)
IsCont(s, i) == i <= Len(s) /\ s[i] >= 128 /\ s[i] <= 191

InRange(s, i, lo, hi) == i <= Len(s) /\ s[i] >= lo /\ s[i] <= hi

\* The length of the well-formed scalar value starting at s[i], 0 if none.
Utf8Width(s, i) ==
    IF s[i] <= 127 THEN 1
    ELSE IF s[i] >= 194 /\ s[i] <= 223 THEN (IF IsCont(s, i + 1) THEN 2 ELSE 0)
    ELSE IF s[i] = 224
        THEN (IF InRange(s, i + 1, 160, 191) /\ IsCont(s, i + 2) THEN 3 ELSE 0)
    ELSE IF s[i] = 237
        THEN (IF InRange(s, i + 1, 128, 159) /\ IsCont(s, i + 2) THEN 3 ELSE 0)
    ELSE IF s[i] >= 225 /\ s[i] <= 239
        THEN (IF IsCont(s, i + 1) /\ IsCont(s, i + 2) THEN 3 ELSE 0)
    ELSE IF s[i] = 240
        THEN (IF InRange(s, i + 1, 144, 191) /\ IsCont(s, i + 2) /\ IsCont(s, i + 3)
              THEN 4 ELSE 0)
    ELSE IF s[i] >= 241 /\ s[i] <= 243
        THEN (IF IsCont(s, i + 1) /\ IsCont(s, i + 2) /\ IsCont(s, i + 3)
              THEN 4 ELSE 0)
    ELSE IF s[i] = 244
        THEN (IF InRange(s, i + 1, 128, 143) /\ IsCont(s, i + 2) /\ IsCont(s, i + 3)
              THEN 4 ELSE 0)
    ELSE 0

\* A byte that starts a scalar value: any byte but a continuation byte.
IsLead(s, i) == ~IsCont(s, i)

\* s is well formed when it starts with a scalar value and every scalar
\* value in it is well formed and followed by another one or by the end.
IsUtf8(s) ==
    /\ Len(s) > 0 => IsLead(s, 1)
    /\ \A i \in 1..Len(s) :
          IsLead(s, i) =>
              /\ Utf8Width(s, i) > 0
              /\ i + Utf8Width(s, i) <= Len(s) => IsLead(s, i + Utf8Width(s, i))

(***************************************************************************)
(* flate2's GzDecoder, read to the end by read_to_string.  The model       *)
(* covers one gzip member whose header has no optional field (FLG = 0) and *)
(* whose deflate stream is made of stored blocks; what follows the member  *)
(* is not read.  A 32-bit word is its four bytes, least significant first  *)
(* (the model checker's integers are 32-bit signed), and the CRC register  *)
(* is its 32 bits, least significant first.                                *)
(***************************************************************************)
Bits(n, width) == [k \in 1..width |-> (n \div (2 ^ (k - 1))) % 2]

\* The reflected CRC-32 polynomial 0xEDB88320, bit 0 first.
CrcPoly ==
    << 0, 0, 0, 0, 0, 1, 0, 0,   1, 1, 0, 0, 0, 0, 0, 1,
       0, 0, 0, 1, 1, 1, 0, 1,   1, 0, 1, 1, 0, 1, 1, 1 >>

\* One bit of the division: shift right, and subtract the polynomial if a
\* one fell out.
CrcShift(r) ==
    IF r[1] = 1
      THEN [k \in 1..32 |-> IF k < 32 THEN (r[k + 1] + CrcPoly[k]) % 2 ELSE CrcPoly[k]]
      ELSE Tail(r) \o << 0 >>

\* The register is kept as its eight 4-bit digits, the least significant
\* first, and divided four bits at a time: CrcTable[n] is the register n
\* after four bits.
Digit(r, k) == r[k] + 2 * r[k + 1] + 4 * r[k + 2] + 8 * r[k + 3]

CrcTable ==
    [n \in 0..15 |->
        [d \in 1..8 |->
            Digit(CrcShift(CrcShift(CrcShift(CrcShift(
                      [k \in 1..32 |-> IF k <= 4 THEN Bits(n, 4)[k] ELSE 0])))),
                  4 * d - 3)]]

Xor4 ==
    [a \in 0..15 |-> [b \in 0..15 |->
        Digit([k \in 1..4 |-> (Bits(a, 4)[k] + Bits(b, 4)[k]) % 2], 1)]]

CrcDigit(r, n) ==
    Only({ [d \in 1..8 |-> IF d < 8 THEN Xor4[r[d + 1]][t[d]] ELSE t[8]] :
           t \in { CrcTable[Xor4[r[1]][n]] } })

CrcByte(r, b) == Only({ CrcDigit(x, b \div 16) : x \in { CrcDigit(r, b % 16) } })

\* The register after the bytes s[lo..hi], halving the range.
RECURSIVE CrcRange(_, _, _, _)
CrcRange(r, s, lo, hi) ==
    IF lo > hi THEN r
    ELSE IF lo = hi THEN CrcByte(r, s[lo])
    ELSE Only({ CrcRange(left, s, ((lo + hi) \div 2) + 1, hi) :
                left \in { CrcRange(r, s, lo, (lo + hi) \div 2) } })

\* The CRC-32 of s: the register starts as, and is at the end inverted
\* from, all ones.
Crc32(s) ==
    Only({ [k \in 1..4 |-> (15 - r[2 * k - 1]) + 16 * (15 - r[2 * k])] :
           r \in { CrcRange([d \in 1..8 |-> 15], s, 1, Len(s)) } })

\* The length modulo 2^32, as a word (every modelled length is below 2^24).
SizeWord(n) == << n % 256, (n \div 256) % 256, (n \div 65536) % 256, 0 >>

InflateFail == [ok |-> FALSE, data |-> << >>, next |-> 0]

\* The stored blocks from s[i] on: the bytes they hold and the place after
\* the final block, or a failure (a truncated block, LEN and NLEN that are
\* not complements, the reserved block type).
RECURSIVE Inflate(_, _, _)
Inflate(s, i, acc) ==
    IF i + 4 > Len(s) \/ (s[i] \div 2) % 4 # 0 THEN InflateFail
    ELSE IF s[i + 1] + 256 * s[i + 2] + s[i + 3] + 256 * s[i + 4] # 65535 THEN InflateFail
    ELSE Only({ IF next - 1 > Len(s) THEN InflateFail
                ELSE IF s[i] % 2 = 1
                  THEN [ok |-> TRUE, data |-> acc \o SubSeq(s, i + 5, next - 1),
                        next |-> next]
                ELSE Only({ Inflate(s, next, got) :
                            got \in { acc \o SubSeq(s, i + 5, next - 1) } }) :
                next \in { i + 5 + s[i + 1] + 256 * s[i + 2] } })

GzFail == [ok |-> FALSE, data |-> << >>]

\* GzDecoder::read_to_string: the header, the deflate stream, the trailer
\* (CRC-32 and length of the data), and the data must be UTF-8.
GzDecode(s) ==
    IF ~(Len(s) >= 10 /\ s[1] = 31 /\ s[2] = 139 /\ s[3] = 8 /\ s[4] = 0) THEN GzFail
    ELSE Only({ IF ~body.ok \/ body.next + 7 > Len(s) THEN GzFail
                ELSE IF \/ SubSeq(s, body.next + 4, body.next + 7)
                              # SizeWord(Len(body.data))
                        \/ SubSeq(s, body.next, body.next + 3) # Crc32(body.data)
                        \/ ~IsUtf8(body.data)
                  THEN GzFail
                ELSE [ok |-> TRUE, data |-> body.data] :
                body \in { Inflate(s, 11, << >>) } })

GzipHeader == << 31, 139, 8, 0, 0, 0, 0, 0, 0, 255 >>

\* A stored block that holds t.
Stored(final, t) ==
    << final, Len(t) % 256, Len(t) \div 256, 255 - (Len(t) % 256), 255 - (Len(t) \div 256) >>
    \o t

\* A gzip member that holds t in one stored block (what a client sends).
GzipOf(t) == GzipHeader \o Stored(1, t) \o Crc32(t) \o SizeWord(Len(t))

(***************************************************************************)
(* serde_json: the JSON text read into a value.  A value is a record       *)
(* [t, v]: t is the kind, and v is << >> for null, << 0 >> or << 1 >> for  *)
(* a boolean, the lexeme for a number, the bytes for a string, the         *)
(* elements for an array and the members [k, v], in the order of the       *)
(* text, for an object.                                                    *)
(***************************************************************************)
JNull == [t |-> "null", v |-> << >>]

JBool(b) == [t |-> "bool", v |-> << b >>]

JNum(lexeme) == [t |-> "num", v |-> lexeme]

JStr(str) == [t |-> "str", v |-> str]

JArr(elems) == [t |-> "arr", v |-> elems]

JObj(members) == [t |-> "obj", v |-> members]

ParseFail == [ok |-> FALSE, v |-> JNull, i |-> 0]

Parsed(val, next) == [ok |-> TRUE, v |-> val, i |-> next]

IsWs(c) == c \in {32, 9, 10, 13}

IsDigit(c) == c >= 48 /\ c <= 57

RECURSIVE Ws(_, _)
Ws(s, i) ==
    IF i <= Len(s) /\ IsWs(s[i]) THEN Only({ Ws(s, j) : j \in { i + 1 } }) ELSE i

HasAt(s, i, lit) ==
    /\ i + Len(lit) - 1 <= Len(s)
    /\ \A k \in 1..Len(lit) : s[i + k - 1] = lit[k]

HexVal(c) ==
    IF IsDigit(c) THEN c - 48
    ELSE IF c >= 97 /\ c <= 102 THEN c - 87
    ELSE IF c >= 65 /\ c <= 70 THEN c - 55
    ELSE -1

\* The four hexadecimal digits at s[i], -1 if they are not there.
Hex4(s, i) ==
    IF i + 3 > Len(s) THEN -1
    ELSE IF \E k \in 0..3 : HexVal(s[i + k]) < 0 THEN -1
    ELSE 4096 * HexVal(s[i]) + 256 * HexVal(s[i + 1]) + 16 * HexVal(s[i + 2])
         + HexVal(s[i + 3])

Utf8Enc(cp) ==
    IF cp < 128 THEN << cp >>
    ELSE IF cp < 2048 THEN << 192 + (cp \div 64), 128 + (cp % 64) >>
    ELSE IF cp < 65536
        THEN << 224 + (cp \div 4096), 128 + ((cp \div 64) % 64), 128 + (cp % 64) >>
    ELSE << 240 + (cp \div 262144), 128 + ((cp \div 4096) % 64),
            128 + ((cp \div 64) % 64), 128 + (cp % 64) >>

\* The escape whose backslash is at s[i]: the bytes it stands for ([ok, v, i]).
ParseEscape(s, i) ==
    IF i + 1 > Len(s) THEN ParseFail
    ELSE LET e == s[i + 1] IN
         IF e \in {34, 92, 47} THEN Parsed(<< e >>, i + 2)
         ELSE IF e = 98 THEN Parsed(<< 8 >>, i + 2)
         ELSE IF e = 102 THEN Parsed(<< 12 >>, i + 2)
         ELSE IF e = 110 THEN Parsed(<< 10 >>, i + 2)
         ELSE IF e = 114 THEN Parsed(<< 13 >>, i + 2)
         ELSE IF e = 116 THEN Parsed(<< 9 >>, i + 2)
         ELSE IF e # 117 THEN ParseFail
         ELSE LET hi == Hex4(s, i + 2) IN
              IF hi < 0 \/ (hi >= 56320 /\ hi <= 57343) THEN ParseFail
              ELSE IF hi < 55296 \/ hi > 56319 THEN Parsed(Utf8Enc(hi), i + 6)
              ELSE IF ~HasAt(s, i + 6, << 92, 117 >>) THEN ParseFail
              ELSE LET lo == Hex4(s, i + 8) IN
                   IF lo < 56320 \/ lo > 57343 THEN ParseFail
                   ELSE Parsed(Utf8Enc(65536 + 1024 * (hi - 55296) + (lo - 56320)),
                               i + 12)

\* The string whose opening quote is at s[i - 1]: its bytes and the place
\* after its closing quote.
RECURSIVE ParseStr(_, _, _)
ParseStr(s, i, acc) ==
    IF i > Len(s) THEN ParseFail
    ELSE IF s[i] = 34 THEN Parsed(acc, i + 1)
    ELSE IF s[i] < 32 THEN ParseFail
    ELSE IF s[i] = 92
        THEN Only({ IF e.ok THEN ParseStr(s, e.i, acc \o e.v) ELSE ParseFail :
                    e \in { ParseEscape(s, i) } })
    ELSE Only({ ParseStr(s, j, Append(acc, s[i])) : j \in { i + 1 } })

RECURSIVE Digits(_, _)
Digits(s, i) ==
    IF i <= Len(s) /\ IsDigit(s[i]) THEN Only({ Digits(s, j) : j \in { i + 1 } }) ELSE i

\* The number at s[i]: -? (0 | [1-9][0-9]*) (. [0-9]+)? ([eE] [+-]? [0-9]+)?
\* a is the place after the sign, b after the integer, c after the
\* fraction, d after the e and its sign, f after the exponent.
NumEnd(s, i, a, b, c, d, f) ==
    IF b = a \/ (b <= Len(s) /\ s[a] = 48 /\ IsDigit(s[b])) THEN ParseFail
    ELSE IF c = b + 1 \/ (d > c /\ f = d) THEN ParseFail
    ELSE Parsed(JNum(SubSeq(s, i, f - 1)), f)

ParseNum(s, i) ==
    Only({ Only({ Only({ Only({ Only({ NumEnd(s, i, a, b, c, d, f) :
        f \in { IF d > c THEN Digits(s, d) ELSE c } }) :
        d \in { IF c <= Len(s) /\ s[c] \in {101, 69}
                  THEN (IF c + 1 <= Len(s) /\ s[c + 1] \in {43, 45} THEN c + 2 ELSE c + 1)
                  ELSE c } }) :
        c \in { IF b <= Len(s) /\ s[b] = 46 THEN Digits(s, b + 1) ELSE b } }) :
        b \in { IF a <= Len(s) /\ s[a] = 48 THEN a + 1 ELSE Digits(s, a) } }) :
        a \in { IF s[i] = 45 THEN i + 1 ELSE i } })

RECURSIVE ParseValue(_, _), ParseElems(_, _, _), ParseMembers(_, _, _)
\* The value at s[i], where i is past the whitespace.
ParseAt(s, i) ==
    IF i > Len(s) THEN ParseFail
    ELSE IF s[i] = 110
      THEN (IF HasAt(s, i, << 110, 117, 108, 108 >>) THEN Parsed(JNull, i + 4)
            ELSE ParseFail)
    ELSE IF s[i] = 116
      THEN (IF HasAt(s, i, << 116, 114, 117, 101 >>) THEN Parsed(JBool(1), i + 4)
            ELSE ParseFail)
    ELSE IF s[i] = 102
      THEN (IF HasAt(s, i, << 102, 97, 108, 115, 101 >>) THEN Parsed(JBool(0), i + 5)
            ELSE ParseFail)
    ELSE IF s[i] = 34
      THEN Only({ IF r.ok THEN Parsed(JStr(r.v), r.i) ELSE ParseFail :
                  r \in { ParseStr(s, i + 1, << >>) } })
    ELSE IF s[i] = 45 \/ IsDigit(s[i]) THEN ParseNum(s, i)
    ELSE IF s[i] = 91
      THEN Only({ IF j <= Len(s) /\ s[j] = 93 THEN Parsed(JArr(<< >>), j + 1)
                  ELSE ParseElems(s, j, << >>) :
                  j \in { Ws(s, i + 1) } })
    ELSE IF s[i] = 123
      THEN Only({ IF j <= Len(s) /\ s[j] = 125 THEN Parsed(JObj(<< >>), j + 1)
                  ELSE ParseMembers(s, j, << >>) :
                  j \in { Ws(s, i + 1) } })
    ELSE ParseFail

ParseValue(s, i0) == Only({ ParseAt(s, i) : i \in { Ws(s, i0) } })

\* After the element r of an array: a comma and the next elements, or the
\* closing bracket, at s[j].
ElemsNext(s, j, acc, r) ==
    IF j > Len(s) THEN ParseFail
    ELSE IF s[j] = 44 THEN ParseElems(s, j + 1, Append(acc, r.v))
    ELSE IF s[j] = 93 THEN Parsed(JArr(Append(acc, r.v)), j + 1)
    ELSE ParseFail

\* The elements of an array from s[i] on, up to its closing bracket.
ParseElems(s, i, acc) ==
    Only({ IF ~r.ok THEN ParseFail
           ELSE Only({ ElemsNext(s, j, acc, r) : j \in { Ws(s, r.i) } }) :
           r \in { ParseValue(s, i) } })

\* After the member k: r of an object: a comma and the next members, or
\* the closing brace, at s[e].
MembersNext(s, e, acc, k, r) ==
    IF e > Len(s) THEN ParseFail
    ELSE IF s[e] = 44 THEN ParseMembers(s, e + 1, Append(acc, [k |-> k.v, v |-> r.v]))
    ELSE IF s[e] = 125 THEN Parsed(JObj(Append(acc, [k |-> k.v, v |-> r.v])), e + 1)
    ELSE ParseFail

\* The member whose name k ends before s[c]: the colon and the value.
MemberValue(s, c, acc, k) ==
    IF c > Len(s) \/ s[c] # 58 THEN ParseFail
    ELSE Only({ IF ~r.ok THEN ParseFail
                ELSE Only({ MembersNext(s, e, acc, k, r) : e \in { Ws(s, r.i) } }) :
                r \in { ParseValue(s, c + 1) } })

\* The members of an object from s[i] on, up to its closing brace.
ParseMembers(s, i, acc) ==
    Only({ IF j > Len(s) \/ s[j] # 34 THEN ParseFail
           ELSE Only({ IF ~k.ok THEN ParseFail
                       ELSE Only({ MemberValue(s, c, acc, k) : c \in { Ws(s, k.i) } }) :
                       k \in { ParseStr(s, j + 1, << >>) } }) :
           j \in { Ws(s, i) } })

\* serde_json::from_str reads one value and then Deserializer::end: only
\* whitespace may follow it.
ParseJson(s) ==
    Only({ IF r.ok /\ Ws(s, r.i) > Len(s) THEN [ok |-> TRUE, v |-> r.v]
           ELSE [ok |-> FALSE, v |-> JNull] :
           r \in { ParseValue(s, 1) } })

(***************************************************************************)
(* serde's view of the value.  A number is a u64, an i64 or an f64 as      *)
(* serde_json reads it; a serde_json::Value keeps an object as a map (a    *)
(* repeated key keeps its last value) and a number as its lexeme.          *)
(***************************************************************************)
\* a <= b for two numerals without leading zeros.
RECURSIVE LexLeq(_, _, _)
LexLeq(a, b, i) ==
    IF i > Len(a) THEN TRUE
    ELSE IF a[i] # b[i] THEN a[i] < b[i]
    ELSE LexLeq(a, b, i + 1)

NumeralLeq(a, b) == Len(a) < Len(b) \/ (Len(a) = Len(b) /\ LexLeq(a, b, 1))

\* 2^63 - 1, 2^63 and 2^64 - 1.
I64Max == << 57, 50, 50, 51, 51, 55, 50, 48, 51, 54, 56, 53, 52, 55, 55, 53, 56, 48, 55 >>

I64MinMagnitude == << 57, 50, 50, 51, 51, 55, 50, 48, 51, 54, 56, 53, 52, 55, 55, 53, 56, 48, 56 >>

U64Max == << 49, 56, 52, 52, 54, 55, 52, 52, 48, 55, 51, 55, 48, 57, 53, 53, 49, 54, 49, 53 >>

NumKind(lexeme) ==
    IF \E k \in 1..Len(lexeme) : lexeme[k] \in {46, 101, 69} THEN "f64"
    ELSE IF lexeme[1] = 45
        THEN (IF lexeme = << 45, 48 >> THEN "f64"
              ELSE IF NumeralLeq(Drop(lexeme, 1), I64MinMagnitude) THEN "i64"
              ELSE "f64")
    ELSE IF NumeralLeq(lexeme, U64Max) THEN "u64"
    ELSE "f64"

RECURSIVE ToValue(_)
ToValue(j) ==
    IF j.t = "arr" THEN JArr([k \in 1..Len(j.v) |-> ToValue(j.v[k])])
    ELSE IF j.t = "obj"
        THEN LET keys == { j.v[k].k : k \in 1..Len(j.v) }
                 last(key) == CHOOSE k \in 1..Len(j.v) :
                                  /\ j.v[k].k = key
                                  /\ \A m \in (k + 1)..Len(j.v) : j.v[m].k # key
             IN  JObj([key \in keys |-> ToValue(j.v[last(key)].v)])
    ELSE j

DeFail == [ok |-> FALSE, v |-> None]

DeOk(val) == [ok |-> TRUE, v |-> val]

\* String
DeString(j) == IF j.t = "str" THEN DeOk(j.v) ELSE DeFail

\* Option<String>
DeOptString(j) ==
    IF j.t = "null" THEN DeOk(None)
    ELSE IF j.t = "str" THEN DeOk(Some(j.v))
    ELSE DeFail

\* Uuid::parse_str: 32 hexadecimal digits, or the hyphenated form, alone,
\* in braces or after "urn:uuid:".  The value is its 32 digits.
IsHexRun(s, lo, hi) == \A k \in lo..hi : HexVal(s[k]) >= 0

HexRun(s, lo, hi) == [k \in 1..(hi - lo + 1) |-> HexVal(s[lo + k - 1])]

ParseHyphenated(s) ==
    IF /\ Len(s) = 36
       /\ s[9] = 45 /\ s[14] = 45 /\ s[19] = 45 /\ s[24] = 45
       /\ IsHexRun(s, 1, 8) /\ IsHexRun(s, 10, 13) /\ IsHexRun(s, 15, 18)
       /\ IsHexRun(s, 20, 23) /\ IsHexRun(s, 25, 36)
      THEN DeOk(HexRun(s, 1, 8) \o HexRun(s, 10, 13) \o HexRun(s, 15, 18)
                \o HexRun(s, 20, 23) \o HexRun(s, 25, 36))
      ELSE DeFail

ParseUuid(s) ==
    IF Len(s) = 32 THEN (IF IsHexRun(s, 1, 32) THEN DeOk(HexRun(s, 1, 32)) ELSE DeFail)
    ELSE IF Len(s) = 38 /\ s[1] = 123 /\ s[38] = 125 THEN ParseHyphenated(SubSeq(s, 2, 37))
    ELSE IF Len(s) = 45 /\ StartsWith(s, << 117, 114, 110, 58, 117, 117, 105, 100, 58 >>)
        THEN ParseHyphenated(Drop(s, 9))
    ELSE ParseHyphenated(s)

\* Option<Uuid>
DeOptUuid(j) ==
    IF j.t = "null" THEN DeOk(None)
    ELSE IF j.t = "str"
        THEN LET u == ParseUuid(j.v) IN IF u.ok THEN DeOk(Some(u.v)) ELSE DeFail
    ELSE DeFail

\* HashMap<String, Value>
DeMap(j) == IF j.t = "obj" THEN DeOk(ToValue(j).v) ELSE DeFail

\* Option<HashMap<String, Value>>
DeOptMap(j) ==
    IF j.t = "null" THEN DeOk(None)
    ELSE IF j.t = "obj" THEN DeOk(Some(ToValue(j).v))
    ELSE DeFail

\* Option<i64>, kept as its numeral
DeOptI64(j) ==
    IF j.t = "null" THEN DeOk(None)
    ELSE IF j.t # "num" THEN DeFail
    ELSE IF NumKind(j.v) = "i64" THEN DeOk(Some(j.v))
    ELSE IF NumKind(j.v) = "u64" /\ NumeralLeq(j.v, I64Max) THEN DeOk(Some(j.v))
    ELSE DeFail

(***************************************************************************)
(* RawEvent and its derived Deserialize.  A struct is read from a JSON     *)
(* object (by field name, aliases included, unknown names ignored, a       *)
(* field given twice an error) or from a JSON array (by position).         *)
(***************************************************************************)
FieldNames ==
    << "token", "distinct_id", "uuid", "event", "properties", "timestamp",
       "offset", "set", "set_once" >>

\* The field a member's name stands for, "" if none.
FieldOf(name) ==
    IF name \in { << 116, 111, 107, 101, 110 >>,
                  << 36, 116, 111, 107, 101, 110 >>,
                  << 97, 112, 105, 95, 107, 101, 121 >> } THEN "token"
    ELSE IF name = << 100, 105, 115, 116, 105, 110, 99, 116, 95, 105, 100 >>
        THEN "distinct_id"
    ELSE IF name = << 117, 117, 105, 100 >> THEN "uuid"
    ELSE IF name = << 101, 118, 101, 110, 116 >> THEN "event"
    ELSE IF name = << 112, 114, 111, 112, 101, 114, 116, 105, 101, 115 >>
        THEN "properties"
    ELSE IF name = << 116, 105, 109, 101, 115, 116, 97, 109, 112 >>
        THEN "timestamp"
    ELSE IF name = << 111, 102, 102, 115, 101, 116 >> THEN "offset"
    ELSE IF name = << 36, 115, 101, 116 >> THEN "set"
    ELSE IF name = << 36, 115, 101, 116, 95, 111, 110, 99, 101 >> THEN "set_once"
    ELSE ""

DeField(field, j) ==
    CASE field \in {"token", "distinct_id", "timestamp"} -> DeOptString(j)
      [] field = "uuid" -> DeOptUuid(j)
      [] field = "event" -> DeString(j)
      [] field = "properties" -> DeMap(j)
      [] field = "offset" -> DeOptI64(j)
      [] field \in {"set", "set_once"} -> DeOptMap(j)

\* What a field absent from the object gets: None, the default map for
\* properties (serde(default)); event has no default.
RawEvent(got) ==
    [token       |-> IF "token" \in DOMAIN got THEN got["token"] ELSE None,
     distinct_id |-> IF "distinct_id" \in DOMAIN got THEN got["distinct_id"] ELSE None,
     uuid        |-> IF "uuid" \in DOMAIN got THEN got["uuid"] ELSE None,
     event       |-> got["event"],
     properties  |-> IF "properties" \in DOMAIN got THEN got["properties"] ELSE << >>,
     timestamp   |-> IF "timestamp" \in DOMAIN got THEN got["timestamp"] ELSE None,
     offset      |-> IF "offset" \in DOMAIN got THEN got["offset"] ELSE None,
     set         |-> IF "set" \in DOMAIN got THEN got["set"] ELSE None,
     set_once    |-> IF "set_once" \in DOMAIN got THEN got["set_once"] ELSE None]

\* visit_map: the members in the order of the text.
RECURSIVE VisitMap(_, _, _)
VisitMap(members, i, got) ==
    IF i > Len(members)
      THEN (IF "event" \in DOMAIN got THEN DeOk(RawEvent(got)) ELSE DeFail)
    ELSE Only({ IF field = "" THEN VisitMap(members, i + 1, got)
                ELSE IF field \in DOMAIN got THEN DeFail
                ELSE Only({ IF ~r.ok THEN DeFail
                            ELSE VisitMap(members, i + 1, (field :> r.v) @@ got) :
                            r \in { DeField(field, members[i].v) } }) :
                field \in { FieldOf(members[i].k) } })

\* visit_seq: one element per field, in the order of the declaration; only
\* properties may be missing, and no element may be left over.
RECURSIVE VisitSeq(_, _, _)
VisitSeq(elems, i, got) ==
    IF i > Len(FieldNames)
      THEN (IF Len(elems) > Len(FieldNames) THEN DeFail ELSE DeOk(RawEvent(got)))
    ELSE IF i > Len(elems)
      THEN (IF FieldNames[i] = "properties" THEN VisitSeq(elems, i + 1, got) ELSE DeFail)
    ELSE Only({ IF ~r.ok THEN DeFail
                ELSE VisitSeq(elems, i + 1, (FieldNames[i] :> r.v) @@ got) :
                r \in { DeField(FieldNames[i], elems[i]) } })

DeRawEvent(j) ==
    IF j.t = "obj" THEN VisitMap(j.v, 1, << >>)
    ELSE IF j.t = "arr" THEN VisitSeq(j.v, 1, << >>)
    ELSE DeFail

(***************************************************************************)
(* RawRequest (serde(untagged)): the variants are tried in the order of    *)
(* the declaration, Batch(Vec<RawEvent>) and then One(Box<RawEvent>).      *)
(***************************************************************************)
\* Vec<RawEvent>
DeBatch(j) ==
    IF j.t # "arr" THEN DeFail
    ELSE Only({ IF \A k \in 1..Len(j.v) : each[k].ok
                  THEN DeOk([k \in 1..Len(j.v) |-> each[k].v])
                  ELSE DeFail :
                each \in { [k \in 1..Len(j.v) |-> DeRawEvent(j.v[k])] } })

\* tried lists the variants the deserializer tried, in order.
RawRequest(j) ==
    Only({ IF batch.ok
             THEN [ok |-> TRUE, v |-> [variant |-> "Batch", events |-> batch.v],
                   tried |-> << "Batch" >>]
             ELSE Only({ [ok |-> one.ok,
                          v |-> IF one.ok
                                  THEN [variant |-> "One", events |-> << one.v >>]
                                  ELSE None,
                          tried |-> << "Batch", "One" >>] :
                         one \in { DeRawEvent(j) } }) :
           batch \in { DeBatch(j) } })

\* Mutation of events: a batch gives its first event only.
events_first(request) ==
    IF request.events = << >> THEN << >> ELSE << request.events[1] >>

\* RawRequest::events
events(request) ==
    IF request.variant = "Batch" THEN request.events ELSE << request.events[1] >>

(***************************************************************************)
(* RawEvent::from_bytes.  A Result is [ok, events, error]; the error of    *)
(* serde_json (raised by `?`) is a ParseError, the two others are          *)
(* RequestDecodingErrors with their message.  steps lists, for the         *)
(* observer, the decoders the call ran: "gzip" (GzDecoder), "utf8"         *)
(* (String::from_utf8) and "json" (serde_json::from_str), and then the     *)
(* variants of RawRequest tried on the JSON value.                         *)
(***************************************************************************)
NoError == [kind |-> "", msg |-> ""]

RequestDecodingError(msg) == [kind |-> "RequestDecodingError", msg |-> msg]

ParseError == [kind |-> "ParseError", msg |-> ""]

Ok(evs) == [ok |-> TRUE, events |-> evs, error |-> NoError]

Err(e) == [ok |-> FALSE, events |-> << >>, error |-> e]

\* GzDecoder::new(bytes).read_to_string(&mut buf), its error mapped to
\* "invalid gzip data".
GzipPayload(bytes) ==
    Only({ IF d.ok
             THEN [ok |-> TRUE, text |-> d.data, error |-> NoError, step |-> "gzip"]
             ELSE [ok |-> FALSE, text |-> << >>,
                   error |-> RequestDecodingError("invalid gzip data"), step |-> "gzip"] :
           d \in { GzDecode(bytes) } })

\* String::from_utf8(bytes.into()), its error mapped to "invalid body
\* encoding".
TextPayload(bytes) ==
    IF IsUtf8(bytes)
      THEN [ok |-> TRUE, text |-> bytes, error |-> NoError, step |-> "utf8"]
      ELSE [ok |-> FALSE, text |-> << >>,
            error |-> RequestDecodingError("invalid body encoding"), step |-> "utf8"]

\* Mutation of Payload: one message for the two byte-level failures.
PayloadOneMessage(bytes) ==
    IF StartsWith(bytes, GZIP_MAGIC_NUMBERS)
      THEN Only({ IF p.ok THEN p
                  ELSE [p EXCEPT !.error = RequestDecodingError("invalid body encoding")] :
                  p \in { GzipPayload(bytes) } })
      ELSE TextPayload(bytes)

\* Mutation of Payload: the body is never sniffed, it is always read as text.
PayloadUnsniffed(bytes) == TextPayload(bytes)

\* Mutation of Payload: a body that does not decompress is read as text.
PayloadWithFallback(bytes) ==
    IF StartsWith(bytes, GZIP_MAGIC_NUMBERS)
      THEN Only({ IF p.ok THEN p ELSE TextPayload(bytes) :
                  p \in { GzipPayload(bytes) } })
      ELSE TextPayload(bytes)

\* let payload = if bytes.starts_with(&GZIP_MAGIC_NUMBERS) { .. } else { .. };
Payload(bytes) ==
    IF StartsWith(bytes, GZIP_MAGIC_NUMBERS) THEN GzipPayload(bytes)
    ELSE TextPayload(bytes)

\* Ok(serde_json::from_str::<RawRequest>(&payload)?.events())
FromStr(payload) ==
    Only({ IF ~j.ok THEN [result |-> Err(ParseError), tried |-> << >>]
           ELSE Only({ [result |-> IF r.ok THEN Ok(events(r.v)) ELSE Err(ParseError),
                        tried |-> r.tried] :
                       r \in { RawRequest(j.v) } }) :
           j \in { ParseJson(payload) } })

\* Mutation of Call: the compression the caller declares decides the
\* decoder, the body is sniffed only when none is declared.
CallByHint(_query, bytes) ==
    Only({ IF ~p.ok THEN [result |-> Err(p.error), steps |-> << p.step >>]
           ELSE Only({ [result |-> f.result, steps |-> << p.step, "json" >> \o f.tried] :
                       f \in { FromStr(p.text) } }) :
           p \in { IF _query.compression = Some("Gzip") THEN GzipPayload(bytes)
                    ELSE IF _query.compression = None THEN Payload(bytes)
                    ELSE TextPayload(bytes) } })

Call(_query, bytes) ==
    Only({ IF ~p.ok THEN [result |-> Err(p.error), steps |-> << p.step >>]
           ELSE Only({ [result |-> f.result, steps |-> << p.step, "json" >> \o f.tried] :
                       f \in { FromStr(p.text) } }) :
           p \in { Payload(bytes) } })

from_bytes(_query, bytes) == Call(_query, bytes).result

(***************************************************************************)
(* RawEvent::extract_token and ProcessedEvent::key.                        *)
(***************************************************************************)
PropertyToken == << 116, 111, 107, 101, 110 >>

\* Mutation of extract_token: properties["token"] is looked up first.
extract_token_properties_first(self) ==
    IF PropertyToken \in DOMAIN self.properties
       /\ self.properties[PropertyToken].t = "str"
      THEN Some(self.properties[PropertyToken].v)
    ELSE IF IsSome(self.token) THEN Some(self.token[1])
    ELSE None

extract_token(self) ==
    IF IsSome(self.token) THEN Some(self.token[1])
    ELSE IF PropertyToken \in DOMAIN self.properties
            /\ self.properties[PropertyToken].t = "str"
        THEN Some(self.properties[PropertyToken].v)
    ELSE None

\* Mutation of key: no separator.
key_without_separator(self) == self.token \o self.distinct_id

\* format!("{}:{}", self.token, self.distinct_id)
key(self) == self.token \o << 58 >> \o self.distinct_id

(***************************************************************************)
(* The requests of the model: a JSON text, sent as it is, compressed, or   *)
(* damaged on the way.                                                     *)
(***************************************************************************)
MaxBatch == 2

MaxProps == 2

MaxLen == 2

RecordTexts ==
    \* {"event":"a","token":"t1"}
    << << 123, 34, 101, 118, 101, 110, 116, 34, 58, 34, 97, 34, 44, 34, 116, 111, 107, 101, 110, 34, 58, 34, 116, 49, 34, 125 >>,
       \* {"event":"b","token":"t2"}
       << 123, 34, 101, 118, 101, 110, 116, 34, 58, 34, 98, 34, 44, 34, 116, 111, 107, 101, 110, 34, 58, 34, 116, 50, 34, 125 >>,
       \* {"event":""}
       << 123, 34, 101, 118, 101, 110, 116, 34, 58, 34, 34, 125 >>,
       \* {"token":"t1"}
       << 123, 34, 116, 111, 107, 101, 110, 34, 58, 34, 116, 49, 34, 125 >>,
       \* [null,null,null,"e",{},null,null,null,null]
       << 91, 110, 117, 108, 108, 44, 110, 117, 108, 108, 44, 110, 117, 108, 108, 44, 34, 101, 34, 44, 123, 125, 44, 110, 117, 108, 108, 44, 110, 117, 108, 108, 44, 110, 117, 108, 108, 44, 110, 117, 108, 108, 93 >> >>

OtherTexts ==
    \* {"event":"x","properties":{"token":"abc"}}
    { << 123, 34, 101, 118, 101, 110, 116, 34, 58, 34, 120, 34, 44, 34, 112, 114, 111, 112, 101, 114, 116, 105, 101, 115, 34, 58, 123, 34, 116, 111, 107, 101, 110, 34, 58, 34, 97, 98, 99, 34, 125, 125 >>,
      \* {"event":"x","api_key":"k","distinct_id":"d","offset":5,"$set":{"a":1}}
      << 123, 34, 101, 118, 101, 110, 116, 34, 58, 34, 120, 34, 44, 34, 97, 112, 105, 95, 107, 101, 121, 34, 58, 34, 107, 34, 44, 34, 100, 105, 115, 116, 105, 110, 99, 116, 95, 105, 100, 34, 58, 34, 100, 34, 44, 34, 111, 102, 102, 115, 101, 116, 34, 58, 53, 44, 34, 36, 115, 101, 116, 34, 58, 123, 34, 97, 34, 58, 49, 125, 125 >>,
      \*  [ {"event": "a"} ,{"event":"b","extra":[1,true]} ] 
      << 32, 91, 32, 123, 34, 101, 118, 101, 110, 116, 34, 58, 32, 34, 97, 34, 125, 32, 44, 123, 34, 101, 118, 101, 110, 116, 34, 58, 34, 98, 34, 44, 34, 101, 120, 116, 114, 97, 34, 58, 91, 49, 44, 116, 114, 117, 101, 93, 125, 32, 93, 32 >>,
      \* [{"event":"a"},7]
      << 91, 123, 34, 101, 118, 101, 110, 116, 34, 58, 34, 97, 34, 125, 44, 55, 93 >>,
      \* {"event":"a"
      << 123, 34, 101, 118, 101, 110, 116, 34, 58, 34, 97, 34 >>,
      \* null
      << 110, 117, 108, 108 >>,
      << >> }

RECURSIVE Join(_, _)
Join(ix, k) ==
    IF k > Len(ix) THEN << >>
    ELSE (IF k > 1 THEN << 44 >> ELSE << >>) \o RecordTexts[ix[k]] \o Join(ix, k + 1)

\* The JSON array of the records ix names.
BatchText(ix) == << 91 >> \o Join(ix, 1) \o << 93 >>

BatchIndexes == UNION { [1..n -> 1..Len(RecordTexts)] : n \in 0..MaxBatch }

Texts ==
    { BatchText(ix) : ix \in BatchIndexes }
    \cup { RecordTexts[k] : k \in 1..Len(RecordTexts) }
    \cup OtherTexts

Wraps ==
    { "plain", "gzip", "gzip two blocks", "gzip then more", "gzip cut", "gzip header only",
      "gzip magic only", "gzip bad crc", "gzip bad size", "gzip bad block length",
      "gzip reserved block", "gzip of bad utf8", "bad utf8", "two magic bytes",
      "wrong method" }

Replace(s, k, b) == [n \in 1..Len(s) |-> IF n = k THEN b ELSE s[n]]

Damage(wrap, t, z) ==
    CASE wrap = "plain" -> t
      [] wrap = "gzip" -> z
      [] wrap = "gzip two blocks" ->
            GzipHeader \o Stored(0, SubSeq(t, 1, Len(t) \div 2))
            \o Stored(1, SubSeq(t, (Len(t) \div 2) + 1, Len(t)))
            \o SubSeq(z, Len(z) - 7, Len(z))
      [] wrap = "gzip then more" -> z \o << 0, 123 >>
      [] wrap = "gzip cut" -> SubSeq(z, 1, Len(z) - 1)
      [] wrap = "gzip header only" -> SubSeq(z, 1, 10)
      [] wrap = "gzip magic only" -> SubSeq(z, 1, 3)
      [] wrap = "gzip bad crc" -> Replace(z, Len(z) - 7, (z[Len(z) - 7] + 1) % 256)
      [] wrap = "gzip bad size" -> Replace(z, Len(z) - 3, (z[Len(z) - 3] + 1) % 256)
      [] wrap = "gzip bad block length" -> Replace(z, 14, (z[14] + 1) % 256)
      [] wrap = "gzip reserved block" -> Replace(z, 11, 7)
      [] wrap = "gzip of bad utf8" -> z
      [] wrap = "bad utf8" -> t \o << 255 >>
      [] wrap = "two magic bytes" -> << 31, 139 >>
      [] wrap = "wrong method" -> << 31, 139, 9 >> \o Drop(z, 3)

\* The body made from the text t: z is the gzip member of t (of t and a
\* byte that is not UTF-8 for "gzip of bad utf8").
Wrap(wrap, t) ==
    IF wrap \in {"plain", "bad utf8", "two magic bytes"} THEN Damage(wrap, t, << >>)
    ELSE Only({ Damage(wrap, t, z) :
                z \in { GzipOf(IF wrap = "gzip of bad utf8" THEN t \o << 255 >> ELSE t) } })

\* EventQuery: the compression hint, lib_version and sent_at of the caller.
Queries ==
    { [compression |-> None, lib_version |-> None, sent_at |-> None],
      [compression |-> Some("Unsupported"), lib_version |-> Some(<< 49, 46, 50 >>),
       sent_at |-> None],
      [compression |-> Some("Gzip"), lib_version |-> None, sent_at |-> Some(1700000000)] }

(***************************************************************************)
(* The RawEvents of the model: what from_bytes gives for an object with    *)
(* one of TokenParts and a properties object of up to MaxProps of the      *)
(* members MemberTexts.                                                    *)
(***************************************************************************)
TokenParts ==
    { << >>,
      \* ,"token":""
      << 44, 34, 116, 111, 107, 101, 110, 34, 58, 34, 34 >>,
      \* ,"token":"t1"
      << 44, 34, 116, 111, 107, 101, 110, 34, 58, 34, 116, 49, 34 >>,
      \* ,"$token":"t2"
      << 44, 34, 36, 116, 111, 107, 101, 110, 34, 58, 34, 116, 50, 34 >>,
      \* ,"token":null
      << 44, 34, 116, 111, 107, 101, 110, 34, 58, 110, 117, 108, 108 >> }

MemberTexts ==
    \* "token":"abc"
    << << 34, 116, 111, 107, 101, 110, 34, 58, 34, 97, 98, 99, 34 >>,
       \* "token":""
       << 34, 116, 111, 107, 101, 110, 34, 58, 34, 34 >>,
       \* "token":7
       << 34, 116, 111, 107, 101, 110, 34, 58, 55 >>,
       \* "api_key":"k"
       << 34, 97, 112, 105, 95, 107, 101, 121, 34, 58, 34, 107, 34 >>,
       \* "$token":"p"
       << 34, 36, 116, 111, 107, 101, 110, 34, 58, 34, 112, 34 >>,
       \* "tok":{"token":"q"}
       << 34, 116, 111, 107, 34, 58, 123, 34, 116, 111, 107, 101, 110, 34, 58, 34, 113, 34, 125 >> >>

RECURSIVE JoinMembers(_, _)
JoinMembers(ix, k) ==
    IF k > Len(ix) THEN << >>
    ELSE (IF k > 1 THEN << 44 >> ELSE << >>) \o MemberTexts[ix[k]] \o JoinMembers(ix, k + 1)

MemberIndexes == UNION { [1..n -> 1..Len(MemberTexts)] : n \in 0..MaxProps }

PropertiesParts ==
    { << >> }
    \* ,"properties":{
    \cup { << 44, 34, 112, 114, 111, 112, 101, 114, 116, 105, 101, 115, 34, 58, 123 >> \o JoinMembers(ix, 1) \o << 125 >> :
             ix \in MemberIndexes }

EventTexts ==
    \* {"event":"x"
    { << 123, 34, 101, 118, 101, 110, 116, 34, 58, 34, 120, 34 >> \o t \o q \o << 125 >> :
        t \in TokenParts, q \in PropertiesParts }

(***************************************************************************)
(* The ProcessedEvents of the model: token and distinct_id are strings of  *)
(* 1..MaxLen characters among "t" and ":", the other fields are those of   *)
(* one of two events.                                                      *)
(***************************************************************************)
Strings == UNION { [1..n -> {116, 58}] : n \in 1..MaxLen }

OtherFields ==
    { [uuid |-> "00000000-0000-0000-0000-000000000000", ip |-> << >>, data |-> << >>,
       now |-> << >>, sent_at |-> None],
      \* ip "1", data "{}", now "n"
      [uuid |-> "67e55044-10b1-426f-9247-bb680e5fe0c8", ip |-> << 49 >>,
       data |-> << 123, 125 >>, now |-> << 110 >>, sent_at |-> Some(1700000000)] }

ProcessedEvents ==
    { [uuid |-> x.uuid, distinct_id |-> d, ip |-> x.ip, data |-> x.data, now |-> x.now,
       sent_at |-> x.sent_at, token |-> t] :
        t \in Strings, d \in Strings, x \in OtherFields }

(***************************************************************************)
(* The state: a call of from_bytes on `bytes` (made from source.text by    *)
(* source.wrap) with `query`, and the same call with `other`; a call of    *)
(* extract_token on `event`; a call of key on `first` and on `second`.     *)
(***************************************************************************)
VARIABLES pc, source, bytes, query, other, result, other_result, steps,
          event, token, first, second, first_key, second_key

vars == << pc, source, bytes, query, other, result, other_result, steps,
           event, token, first, second, first_key, second_key >>

decode_vars == << source, bytes, query, other, result, other_result, steps >>

token_vars == << event, token >>

key_vars == << first, second, first_key, second_key >>

NoResult == [ok |-> FALSE, events |-> << >>, error |-> NoError]

NoEvent == [token |-> None, distinct_id |-> None, uuid |-> None, event |-> << >>,
            properties |-> << >>, timestamp |-> None, offset |-> None, set |-> None,
            set_once |-> None]

NoProcessedEvent ==
    [uuid |-> "", distinct_id |-> << >>, ip |-> << >>, data |-> << >>, now |-> << >>,
     sent_at |-> None, token |-> << >>]

IdleDecode ==
    /\ source = [text |-> << >>, wrap |-> "plain"]
    /\ bytes = << >>
    /\ query \in { q \in Queries : q.compression = None }
    /\ other = query
    /\ result = NoResult
    /\ other_result = NoResult
    /\ steps = << >>

IdleToken == event = NoEvent /\ token = None

IdleKey ==
    /\ first = NoProcessedEvent
    /\ second = NoProcessedEvent
    /\ first_key = << >>
    /\ second_key = << >>

\* A request has arrived: any body, any two queries.
Init ==
    /\ pc = "request"
    /\ source \in [text : Texts, wrap : Wraps]
    /\ bytes = Wrap(source.wrap, source.text)
    /\ query \in Queries
    /\ other \in Queries
    /\ result = NoResult
    /\ other_result = NoResult
    /\ steps = << >>
    /\ IdleToken
    /\ IdleKey

\* RawEvent::from_bytes(&query, bytes), and the same body under the other
\* query.
Decode ==
    /\ pc = "request"
    /\ pc' = "decoded"
    /\ result' = from_bytes(query, bytes)
    /\ other_result' = from_bytes(other, bytes)
    /\ steps' = Call(query, bytes).steps
    /\ UNCHANGED << source, bytes, query, other, token_vars, key_vars >>

Next == Decode

Spec == Init /\ [][Next]_vars

InitToken ==
    /\ pc = "event"
    /\ IdleDecode
    /\ IdleKey
    /\ \E t \in EventTexts : event = from_bytes(query, t).events[1]
    /\ token = None

\* event.extract_token(): &self is not changed.
ExtractToken ==
    /\ pc = "event"
    /\ pc' = "extracted"
    /\ token' = extract_token(event)
    /\ UNCHANGED << event, decode_vars, key_vars >>

NextToken == ExtractToken

SpecToken == InitToken /\ [][NextToken]_vars

InitKey ==
    /\ pc = "processed"
    /\ first \in ProcessedEvents
    /\ second \in ProcessedEvents
    /\ first_key = << >>
    /\ second_key = << >>
    /\ IdleDecode
    /\ IdleToken

\* first.key() and second.key()
Key ==
    /\ pc = "processed"
    /\ pc' = "keyed"
    /\ first_key' = key(first)
    /\ second_key' = key(second)
    /\ UNCHANGED << first, second, decode_vars, token_vars >>

NextKey == Key

SpecKey == InitKey /\ [][NextKey]_vars

(***************************************************************************)
(* Properties of extract_token, under SpecToken.                           *)
(***************************************************************************)
\* properties["token"] of the event when it is a JSON string.
PropertiesToken ==
    IF PropertyToken \in DOMAIN event.properties
       /\ event.properties[PropertyToken].t = "str"
      THEN Some(event.properties[PropertyToken].v)
      ELSE None

\* C1: when the explicit token of a RawEvent is absent, or present but the
\* empty string, extract_token gives properties["token"] if that key holds a
\* JSON string and none otherwise; no other property key has a say.
TokenPrecedence ==
    pc = "extracted" /\ (event.token = None \/ event.token = Some(<< >>)) =>
        token = PropertiesToken

\* C9: an explicit token that is present and not empty is the result of
\* extract_token whatever properties holds; extract_token always gives a
\* string or none; it leaves the event as it was.
ExplicitTokenWins ==
    /\ [](pc = "extracted" =>
            /\ (IsSome(event.token) /\ event.token[1] # << >> => token = event.token)
            /\ (token = None \/ (Len(token) = 1 /\ token[1] \in Seq(0..255))))
    /\ [][event' = event]_vars

\* An event with an explicit token and another string under
\* properties["token"], after extract_token.
ExplicitAndPropertyToken ==
    /\ pc = "extracted"
    /\ IsSome(event.token)
    /\ event.token[1] # << >>
    /\ PropertiesToken # None
    /\ PropertiesToken # event.token
    /\ token = event.token

(***************************************************************************)
(* Properties of key, under SpecKey.                                       *)
(***************************************************************************)
SamePair == first.token = second.token /\ first.distinct_id = second.distinct_id

HasColon(s) == \E k \in 1..Len(s) : s[k] = 58

KeyFormat ==
    /\ first_key = first.token \o << 58 >> \o first.distinct_id
    /\ second_key = second.token \o << 58 >> \o second.distinct_id

\* C2 as stated: the keys of two ProcessedEvents are token, ":" and
\* distinct_id, and they are equal exactly when the two (token, distinct_id)
\* pairs are equal, colons in the components or not.
KeyIdentifiesPair ==
    pc = "keyed" => KeyFormat /\ ((first_key = second_key) <=> SamePair)

\* C2 as amended: the keys are token, ":" and distinct_id; equal pairs have
\* equal keys; different pairs have different keys when neither token has
\* a colon or neither distinct_id has one.
KeyIdentifiesColonFreePair ==
    pc = "keyed" =>
        /\ KeyFormat
        /\ (SamePair => first_key = second_key)
        /\ (/\ ~SamePair
            /\ \/ ~HasColon(first.token) /\ ~HasColon(second.token)
               \/ ~HasColon(first.distinct_id) /\ ~HasColon(second.distinct_id)
            => first_key # second_key)

\* Two events with colon-free tokens and different distinct_ids, one with
\* a colon, after key.
ColonInDistinctId ==
    /\ pc = "keyed"
    /\ ~HasColon(first.token)
    /\ ~HasColon(second.token)
    /\ HasColon(first.distinct_id)
    /\ first.distinct_id # second.distinct_id
    /\ first_key # second_key

(***************************************************************************)
(* Properties of from_bytes, under Spec.                                   *)
(***************************************************************************)
Magic == StartsWith(bytes, GZIP_MAGIC_NUMBERS)

InvalidGzipData == Err(RequestDecodingError("invalid gzip data"))

InvalidBodyEncoding == Err(RequestDecodingError("invalid body encoding"))

\* C3: the result of from_bytes is the same under any two EventQuery
\* values; the gzip decoder runs exactly when the body starts with
\* 0x1f 0x8b 0x08, and any other body, the empty one and those shorter than
\* three bytes included, is read as text even when the hint says Gzip.
SniffingDecides ==
    pc = "decoded" =>
        /\ result = other_result
        /\ Magic <=> steps[1] = "gzip"
        /\ ~Magic <=> steps[1] = "utf8"

\* A text body decoded under the hint Gzip, the other call under another
\* hint.
PlainUnderGzipHint ==
    /\ pc = "decoded"
    /\ query.compression = Some("Gzip")
    /\ other.compression # query.compression
    /\ ~Magic
    /\ steps[1] = "utf8"
    /\ result.ok

\* The bodies that start with the magic bytes and are not a gzip member.
DamagedGzip ==
    { "gzip cut", "gzip header only", "gzip magic only", "gzip bad crc", "gzip bad size",
      "gzip bad block length", "gzip reserved block" }

\* The bodies that do not start with the magic bytes and are not UTF-8.
NotText == { "bad utf8", "two magic bytes", "wrong method" }

\* C4: a body that starts with the magic bytes and does not decompress
\* fails with "invalid gzip data"; a body that does not start with them
\* and is not UTF-8 fails with "invalid body encoding"; either way there
\* are no events and the JSON parser did not run.
FailureByCause ==
    pc = "decoded" =>
        /\ source.wrap \in DamagedGzip =>
              Magic /\ result = InvalidGzipData /\ steps = << "gzip" >>
        /\ source.wrap \in NotText =>
              ~Magic /\ result = InvalidBodyEncoding /\ steps = << "utf8" >>
        /\ result.error.kind = "RequestDecodingError" =>
              result.events = << >> /\ Len(steps) = 1

\* A gzip member with a wrong checksum, refused.
BadChecksumRefused ==
    /\ pc = "decoded"
    /\ source.wrap = "gzip bad crc"
    /\ result = InvalidGzipData
    /\ steps = << "gzip" >>

\* C5: from_bytes on the gzip compression of a UTF-8 JSON text gives what
\* from_bytes gives on the text: the same events in the same order, or a
\* parse error in both; the compressed batch of "a"/"t1" and "b"/"t2"
\* gives these two events.
GzipRoundTrip ==
    pc = "decoded" /\ source.wrap \in { "gzip", "gzip two blocks" } =>
        /\ result = from_bytes(query, source.text)
        /\ result.ok \/ result.error = ParseError
        /\ source.text = BatchText(<< 1, 2 >>) =>
              /\ result.ok
              /\ Len(result.events) = 2
              /\ result.events[1].event = << 97 >>
              /\ result.events[1].token = Some(<< 116, 49 >>)
              /\ result.events[2].event = << 98 >>
              /\ result.events[2].token = Some(<< 116, 50 >>)

\* The compressed batch of two events, decoded.
CompressedBatchDecoded ==
    /\ pc = "decoded"
    /\ source.wrap = "gzip"
    /\ source.text = BatchText(<< 1, 2 >>)
    /\ result.ok
    /\ Len(result.events) = 2

\* The variants tried on the payload, after the decoder and the JSON parser.
Tried == SubSeq(steps, 3, Len(steps))

\* C6: a payload that is one JSON object describing a valid record gives
\* exactly that one RawEvent; a payload that is a JSON array of n valid
\* records, n >= 0, gives n RawEvents, the i-th being the i-th element;
\* the array reading is tried first, the single record only after it failed.
ShapeNormalization ==
    pc = "decoded" /\ source.wrap \in { "plain", "gzip" } =>
        \A j \in { ParseJson(source.text) } :
            j.ok =>
              /\ j.v.t = "obj" /\ DeRawEvent(j.v).ok =>
                    /\ result = Ok(<< DeRawEvent(j.v).v >>)
                    /\ Tried = << "Batch", "One" >>
              /\ j.v.t = "arr" /\ (\A k \in 1..Len(j.v.v) : DeRawEvent(j.v.v[k]).ok) =>
                    /\ result = Ok([k \in 1..Len(j.v.v) |-> DeRawEvent(j.v.v[k]).v])
                    /\ Tried = << "Batch" >>
              /\ Tried \in { << "Batch" >>, << "Batch", "One" >> }

\* The batch of "b" and then "a", decoded in that order.
BatchInOrder ==
    /\ pc = "decoded"
    /\ source.wrap = "plain"
    /\ source.text = BatchText(<< 2, 1 >>)
    /\ result.ok
    /\ Len(result.events) = 2
    /\ result.events[1].event = << 98 >>
    /\ result.events[2].event = << 97 >>
    /\ Tried = << "Batch" >>

\* C7: a payload that is a JSON array with at least one element that is not
\* a valid RawEvent gives a parse error and no RawEvent, wherever the
\* element is and however many others are valid.
BatchAllOrNothing ==
    pc = "decoded" /\ source.wrap = "plain" =>
        \A j \in { ParseJson(source.text) } :
            (/\ j.ok
             /\ j.v.t = "arr"
             /\ \E k \in 1..Len(j.v.v) : ~DeRawEvent(j.v.v[k]).ok)
            => result = Err(ParseError)

\* C8: every RawEvent of a successful from_bytes has an event name that is
\* not empty.
EventNeverEmpty ==
    pc = "decoded" /\ result.ok =>
        \A k \in 1..Len(result.events) : result.events[k].event # << >>

\* C10: a body that starts with the magic bytes is never read as text and
\* never fails with "invalid body encoding": its byte-level failures, a
\* gzip member whose content is not UTF-8 included, are "invalid gzip
\* data"; a body that does not start with them never fails with "invalid
\* gzip data".
GzipNeverFallsBack ==
    pc = "decoded" =>
        /\ Magic =>
              /\ steps[1] = "gzip"
              /\ \A k \in 1..Len(steps) : steps[k] # "utf8"
              /\ result # InvalidBodyEncoding
              /\ result.error.kind = "RequestDecodingError" => result = InvalidGzipData
        /\ source.wrap = "gzip of bad utf8" => Magic /\ result = InvalidGzipData
        /\ ~Magic => result # InvalidGzipData

\* A gzip member whose content is not UTF-8, refused as gzip data.
CompressedNotTextRefused ==
    /\ pc = "decoded"
    /\ source.wrap = "gzip of bad utf8"
    /\ Magic
    /\ result = InvalidGzipData

=============================================================================
